---- MODULE Spec2Model ----
(***************************************************************************)
(* Model of the multi-domain site hosting server (src/test-upload.js,      *)
(* lines 78-676): the registration, upload (publish) and list-sites        *)
(* handlers over the shared users.json store and the per-site content      *)
(* files.                                                                  *)
(*                                                                         *)
(* Strings are sequences of one-character strings, so that the regular     *)
(* expressions, the length checks and the template literals of the source  *)
(* are computed character by character.  An absent (undefined) field of a  *)
(* request body is the value Absent.                                       *)
(*                                                                         *)
(* Every handler is an async function: it runs without interruption up to  *)
(* an await and other requests run while it waits.  Each action below is   *)
(* one such uninterrupted piece together with the file operation it waits  *)
(* for; what a handler does after its last file operation (it builds the  *)
(* response from its own variables) belongs to the step of that operation. *)
(* File writes may fail (the handler's catch block answers 500); reads of  *)
(* users.json succeed.  Timestamps are left out.                           *)
(***************************************************************************)
EXTENDS Integers, Sequences, FiniteSets, TLC

\* ---------------------------------------------------------------- bounds
\* Number of requests the server receives in one run.
MaxReq == 3
\* The outcomes of the three Math.random() calls of generateSubdomain that
\* are explored: adjective d, noun d and number d, for d in 1..MaxDraw.
MaxDraw == 1
\* Number of requests in a run of the two-client scenario LongSpec.
MaxLongReq == 4

\* The requests of a run, numbered in order of arrival.
Req == 1..(IF MaxLongReq > MaxReq THEN MaxLongReq ELSE MaxReq)

\* ------------------------------------------------------ character strings
Absent == <<"undefined">>

LowerChars == <<"a", "b", "c", "d", "e", "f", "g", "h", "i", "j", "k", "l", "m",
                "n", "o", "p", "q", "r", "s", "t", "u", "v", "w", "x", "y", "z">>
UpperChars == <<"A", "B", "C", "D", "E", "F", "G", "H", "I", "J", "K", "L", "M",
                "N", "O", "P", "Q", "R", "S", "T", "U", "V", "W", "X", "Y", "Z">>
DigitChars == <<"0", "1", "2", "3", "4", "5", "6", "7", "8", "9">>

Range(s) == {s[i] : i \in DOMAIN s}

IsLower(c) == c \in Range(LowerChars)
IsUpper(c) == c \in Range(UpperChars)
IsDigit(c) == c \in Range(DigitChars)

\* Truthy with the empty string taken for a value (a test against undefined
\* only).
TruthyDefinedOnly(s) == s # Absent

\* JavaScript truthiness of an optional string: undefined and "" are falsy.
Truthy(s) == s # Absent /\ s # <<>>

\* String.prototype.toLowerCase on the ASCII letters.
LowerOf(c) ==
  IF IsUpper(c) THEN LowerChars[CHOOSE i \in DOMAIN UpperChars : UpperChars[i] = c]
  ELSE c

toLowerCase(s) == [i \in DOMAIN s |-> LowerOf(s[i])]

startsWith(s, c) == Len(s) > 0 /\ s[1] = c
endsWith(s, c) == Len(s) > 0 /\ s[Len(s)] = c

\* Decimal text of a number, as a template literal `${counter}` prints it.
RECURSIVE Dec(_)
Dec(n) == IF n < 10 THEN <<DigitChars[n + 1]>>
          ELSE Dec(n \div 10) \o <<DigitChars[(n % 10) + 1]>>

\* ------------------------------------------------------- configuration
SUPPORTED_DOMAINS == <<
  <<"n", "t", "a", "n", "d", "o", "s", "t", "o", "r", "e">>,
  <<"n", "t", "a", "n", "d", "o", ".", "a", "p", "p">>,
  <<"n", "t", "a", "n", "d", "o", ".", "c", "l", "o", "u", "d">>,
  <<"n", "t", "a", "n", "d", "o", ".", "z", "w">>,
  <<"n", "t", "l", ".", "c", "l", "o", "u", "d">>,
  <<"n", "t", "l", ".", "a", "i">>,
  <<"n", "t", "a", "n", "d", "o", ".", "t", "e", "c", "h">>,
  <<"n", "t", "a", "n", "d", "o", ".", "d", "e", "v">>,
  <<"n", "t", "a", "n", "d", "o", ".", "h", "o", "s", "t">>,
  <<"n", "t", "a", "n", "d", "o", ".", "s", "i", "t", "e">> >>

PRIMARY_DOMAIN == <<"n", "t", "a", "n", "d", "o", "s", "t", "o", "r", "e">>

\* ------------------------------------------------------- pure functions
\* The URL of the primary domain only.
generateSiteUrlsPrimaryOnly(userSubdomain, siteSlug) ==
  [domain \in {PRIMARY_DOMAIN} |->
     <<"h", "t", "t", "p", "s", ":", "/", "/">> \o userSubdomain
       \o <<"-">> \o siteSlug \o <<".">> \o domain]

\* generateSiteUrls: one URL per supported domain.
generateSiteUrls(userSubdomain, siteSlug) ==
  [domain \in Range(SUPPORTED_DOMAINS) |->
     <<"h", "t", "t", "p", "s", ":", "/", "/">> \o userSubdomain
       \o <<"-">> \o siteSlug \o <<".">> \o domain]

adjectives == <<
  <<"q", "u", "i", "c", "k">>, <<"b", "r", "i", "g", "h", "t">>,
  <<"c", "l", "e", "v", "e", "r">>, <<"s", "w", "i", "f", "t">>,
  <<"s", "m", "a", "r", "t">>, <<"h", "a", "p", "p", "y">>,
  <<"l", "u", "c", "k", "y">>, <<"s", "u", "n", "n", "y">>,
  <<"c", "o", "o", "l">>, <<"w", "a", "r", "m">> >>

nouns == <<
  <<"s", "i", "t", "e">>, <<"w", "e", "b">>, <<"p", "a", "g", "e">>,
  <<"s", "p", "a", "c", "e">>, <<"z", "o", "n", "e">>, <<"h", "u", "b">>,
  <<"s", "p", "o", "t">>, <<"p", "l", "a", "c", "e">>,
  <<"w", "o", "r", "l", "d">>, <<"r", "e", "a", "l", "m">> >>

\* A subdomain made of the random words and number only.
generateSubdomainWordsOnly(username, a, n, numbers) ==
  adjectives[a] \o nouns[n] \o Dec(numbers)

\* generateSubdomain, with the three Math.random() draws as parameters:
\* a, n index the word lists, numbers is the value of line 189.
generateSubdomain(username, a, n, numbers) ==
  username \o <<"-">> \o adjectives[a] \o nouns[n] \o Dec(numbers)

reserved == {
  <<"w", "w", "w">>, <<"a", "p", "i">>, <<"a", "d", "m", "i", "n">>,
  <<"d", "a", "s", "h", "b", "o", "a", "r", "d">>, <<"m", "a", "i", "l">>,
  <<"f", "t", "p">>, <<"c", "d", "n">>, <<"s", "t", "a", "t", "i", "c">>,
  <<"a", "s", "s", "e", "t", "s">>, <<"h", "o", "s", "t", "e", "d">>,
  <<"u", "s", "e", "r", "s">> }

validateUsername(username) ==
  /\ Len(username) > 0
  /\ \A i \in DOMAIN username :
        IsLower(username[i]) \/ IsUpper(username[i]) \/ IsDigit(username[i])
          \/ username[i] \in {"_", "-"}
  /\ ~(Len(username) < 3 \/ Len(username) > 30)
  /\ ~(startsWith(username, "-") \/ endsWith(username, "-")
         \/ startsWith(username, "_") \/ endsWith(username, "_"))
  /\ toLowerCase(username) \notin reserved

\* validateSubdomain with the lower length limit off by one.
validateSubdomainMin2(subdomain) ==
  /\ Len(subdomain) > 0
  /\ \A i \in DOMAIN subdomain :
        IsLower(subdomain[i]) \/ IsUpper(subdomain[i]) \/ IsDigit(subdomain[i])
          \/ subdomain[i] = "-"
  /\ ~(Len(subdomain) < 2 \/ Len(subdomain) > 63)
  /\ ~(startsWith(subdomain, "-") \/ endsWith(subdomain, "-"))

validateSubdomain(subdomain) ==
  /\ Len(subdomain) > 0
  /\ \A i \in DOMAIN subdomain :
        IsLower(subdomain[i]) \/ IsUpper(subdomain[i]) \/ IsDigit(subdomain[i])
          \/ subdomain[i] = "-"
  /\ ~(Len(subdomain) < 3 \/ Len(subdomain) > 63)
  /\ ~(startsWith(subdomain, "-") \/ endsWith(subdomain, "-"))

\* s.replace(/[^a-z0-9]+/g, '-'): every maximal run of other characters
\* becomes one hyphen.  inRun says that the previous character was replaced.
RECURSIVE ReplaceRuns(_, _)
ReplaceRuns(s, inRun) ==
  IF s = <<>> THEN <<>>
  ELSE IF IsLower(Head(s)) \/ IsDigit(Head(s))
       THEN <<Head(s)>> \o ReplaceRuns(Tail(s), FALSE)
       ELSE (IF inRun THEN <<>> ELSE <<"-">>) \o ReplaceRuns(Tail(s), TRUE)

\* s.replace(/^-|-$/g, ''): a hyphen at the start and a hyphen at the end
\* are removed.
StripHyphens(s) ==
  LET a == IF startsWith(s, "-") THEN Tail(s) ELSE s
  IN  IF endsWith(a, "-") THEN SubSeq(a, 1, Len(a) - 1) ELSE a

\* The normalised name without the fallback.
SlugFromNameNoFallback(siteName) ==
  StripHyphens(ReplaceRuns(toLowerCase(siteName), FALSE))

\* Line 541, for a siteName that is a string.
SlugFromName(siteName) ==
  LET n == StripHyphens(ReplaceRuns(toLowerCase(siteName), FALSE))
  IN  IF n # <<>> THEN n ELSE <<"s", "i", "t", "e">>

\* The unique-slug loop of lines 550-555, entered with finalSlug = slug and
\* counter = 1.
RECURSIVE UniqueLoop(_, _, _, _)
UniqueLoop(sites, slug0, finalSlug0, counter) ==
  IF \E i \in DOMAIN sites : sites[i].slug = finalSlug0
  THEN UniqueLoop(sites, slug0, slug0 \o <<"-">> \o Dec(counter), counter + 1)
  ELSE finalSlug0

\* A loop whose suffix advances only every second round: slug-1 is tested
\* twice, then slug-2 twice, ...
RECURSIVE UniqueLoopTestsSlow(_, _, _, _)
UniqueLoopTestsSlow(sites, slug0, finalSlug0, counter) ==
  IF \E i \in DOMAIN sites : sites[i].slug = finalSlug0
  THEN 1 + UniqueLoopTestsSlow(sites, slug0,
             slug0 \o <<"-">> \o Dec((counter + 1) \div 2), counter + 1)
  ELSE 1

\* The number of times the condition of the while of line 552 is
\* evaluated by the loop of lines 550-555 (the last, false, one included).
RECURSIVE UniqueLoopTests(_, _, _, _)
UniqueLoopTests(sites, slug0, finalSlug0, counter) ==
  IF \E i \in DOMAIN sites : sites[i].slug = finalSlug0
  THEN 1 + UniqueLoopTests(sites, slug0, slug0 \o <<"-">> \o Dec(counter), counter + 1)
  ELSE 1

\* The loop as a do-while: a suffix is appended before the first test.
UniqueSlugSuffixFirst(sites, slug0) ==
  UniqueLoop(sites, slug0, slug0 \o <<"-">> \o Dec(1), 2)

\* The slug taken as it is, without the loop.
UniqueSlugNoLoop(sites, slug0) == slug0

\* The loop with the counter started at 2.
UniqueSlugFromTwo(sites, slug0) == UniqueLoop(sites, slug0, slug0, 2)

\* The suffix taken from the number of sites of the user, without a loop.
UniqueSlugBySize(sites, slug0) ==
  IF \E i \in DOMAIN sites : sites[i].slug = slug0
  THEN slug0 \o <<"-">> \o Dec(Len(sites))
  ELSE slug0

UniqueSlug(sites, slug0) == UniqueLoop(sites, slug0, slug0, 1)

\* Line 533 and line 552: user.sites of the user of the token.
SitesOf(store, uid) == store[uid].sites

\* String.prototype.replace(pattern, replacement) with a string pattern:
\* the first occurrence only.  Documents are sequences of tokens (a tag or a
\* piece of text each).
RECURSIVE ReplaceFirst(_, _, _)
ReplaceFirst(s, tok, rep) ==
  IF s = <<>> THEN <<>>
  ELSE IF Head(s) = tok THEN rep \o Tail(s)
       ELSE <<Head(s)>> \o ReplaceFirst(Tail(s), tok, rep)

\* Lines 563-575: the document written to index.html.
ComposeHtml(b) ==
  LET h1 == IF Truthy(b.favicon)
            THEN ReplaceFirst(b.html, "<head>",
                   <<"<head>", "<link rel=icon href=data:image/x-icon;base64,">>
                     \o b.favicon \o <<">">>)
            ELSE b.html
      h2 == IF Truthy(b.css)
            THEN ReplaceFirst(h1, "</head>", <<"<style>">> \o b.css \o <<"</style>", "</head>">>)
            ELSE h1
  IN  IF Truthy(b.js)
      THEN ReplaceFirst(h2, "</body>", <<"<script>">> \o b.js \o <<"</script>", "</body>">>)
      ELSE h2

\* bcrypt.hash is an external library; the hash is an opaque value made
\* from the password.
bcryptHash(password) == <<"$2b$10$">> \o password

\* -------------------------------------------------------- request bodies
Doc == <<"<html>", "<head>", "</head>", "<body>", "hello", "</body>", "</html>">>
sTest == <<"t", "e", "s", "t">>
nTest == <<"T", "e", "s", "t">>
sAb == <<"A", "b">>
dApp == <<"n", "t", "a", "n", "d", "o", ".", "a", "p", "p">>

UploadBody(html, css, js, siteName, siteSlug, favicon, preferredDomain) ==
  [html |-> html, css |-> css, js |-> js, siteName |-> siteName,
   siteSlug |-> siteSlug, favicon |-> favicon, preferredDomain |-> preferredDomain]

sTest1 == <<"t", "e", "s", "t", "-", "1">>

\* The upload requests clients send while other requests are in flight.
UploadBodies == {
  UploadBody(Doc, <<"h1{}">>, <<"run()">>, nTest, Absent, Absent, Absent),
  UploadBody(Doc, Absent, Absent, nTest, sTest, <<"AAAA">>, dApp),
  UploadBody(<<>>, Absent, Absent, nTest, sTest, Absent, Absent),
  UploadBody(Absent, Absent, Absent, nTest, Absent, Absent, Absent),
  UploadBody(Doc, Absent, Absent, nTest, sAb, Absent, Absent) }

\* A string of n characters c.
Repeat(c, n) == [i \in 1..n |-> c]

\* Further upload requests, sent one at a time: slugs and names at the
\* edges of the slug grammar.
SeqUploadBodies == UploadBodies \cup {
  UploadBody(Doc, Absent, Absent, nTest, sTest1, Absent, Absent),
  UploadBody(Doc, Absent, Absent, nTest, <<"-", "a", "b">>, Absent, Absent),
  UploadBody(Doc, Absent, Absent, nTest, <<"a", "b", "-">>, Absent, Absent),
  UploadBody(Doc, Absent, Absent, nTest, <<"a", "_", "b">>, Absent, Absent),
  UploadBody(Doc, Absent, Absent, nTest, Repeat("a", 64), Absent, Absent),
  UploadBody(Doc, Absent, Absent, <<"A", "!">>, Absent, Absent, Absent),
  UploadBody(Doc, Absent, Absent, <<"A", " ", "b">>, <<>>, Absent, Absent) }

\* A domain that is not in SUPPORTED_DOMAINS.
dOther == <<"e", "v", "i", "l", ".", "c", "o", "m">>

\* Upload requests of one client, sent one at a time: a slug of the
\* greatest length allowed with a preferredDomain outside the supported
\* list, and names that are missing, empty, only punctuation, or one
\* letter and punctuation.
EdgeUploadBodies == {
  UploadBody(Doc, Absent, Absent, nTest, Repeat("a", 63), Absent, dOther),
  UploadBody(Doc, Absent, Absent, Absent, Absent, Absent, Absent),
  UploadBody(Doc, Absent, Absent, <<>>, Absent, Absent, Absent),
  UploadBody(Doc, Absent, Absent, <<"!", "!">>, Absent, Absent, Absent),
  UploadBody(Doc, Absent, Absent, <<"A", "!">>, Absent, Absent, Absent) }

RegisterBody(username, email, password) ==
  [username |-> username, email |-> email, password |-> password]

uBob == <<"b", "o", "b">>
uAmy == <<"a", "m", "y">>
eBob == <<"b", "@", "x">>
eAmy == <<"a", "@", "x">>
pwd == <<"s", "e", "c", "r", "e", "t">>

\* A username that is bob's subdomain when "quick", "site" and 1 are drawn.
uBobQuick == <<"b", "o", "b", "-", "q", "u", "i", "c", "k", "s", "i", "t", "e", "1">>
sQuickTest == <<"q", "u", "i", "c", "k", "s", "i", "t", "e", "1", "-", "t", "e", "s", "t">>

\* The requests of the two clients of LongSpec.
LongRegisterBodies == {
  RegisterBody(uBob, eBob, pwd),
  RegisterBody(uBobQuick, eAmy, pwd) }

LongUploadBodies == {
  UploadBody(Doc, Absent, Absent, nTest, sTest, Absent, Absent),
  UploadBody(Doc, Absent, Absent, nTest, sTest1, Absent, Absent),
  UploadBody(Doc, Absent, Absent, nTest, sQuickTest, Absent, Absent) }

\* The registration requests clients send while other requests are in
\* flight.
RegisterBodies == {
  RegisterBody(uBob, eBob, pwd),
  RegisterBody(uAmy, eAmy, pwd),
  RegisterBody(uAmy, eBob, pwd),
  RegisterBody(<<"w", "w", "w">>, eAmy, pwd) }

\* Further registration requests, sent one at a time.
SeqRegisterBodies == RegisterBodies \cup {
  RegisterBody(uBob, Absent, pwd),
  RegisterBody(uBob, eBob, <<"s", "h", "o", "r", "t">>) }

\* ------------------------------------------------------------------ state
VARIABLES
  usersFile,  \* users.json: user id -> user record
  content,    \* index.html files: <<subdomain, slug>> -> document
  pc,         \* per request: the await it is suspended at
  kind,       \* per request: "register", "upload", "sites" or "none"
  body,       \* per request: req.body
  auth,       \* per request: req.user.userId of the verified token
  users,      \* per request: the handler's local variable users
  slug,       \* per request: the handler's local variable slug
  finalSlug,  \* per request: the handler's local variable finalSlug
  resp        \* per request: the response sent

vars == <<usersFile, content, pc, kind, body, auth, users, slug, finalSlug, resp>>

NoResp == [status |-> 0]

Init ==
  /\ usersFile = <<>>
  /\ content = <<>>
  /\ pc = [r \in Req |-> "idle"]
  /\ kind = [r \in Req |-> "none"]
  /\ body = [r \in Req |-> <<>>]
  /\ auth = [r \in Req |-> 0]
  /\ users = [r \in Req |-> <<>>]
  /\ slug = [r \in Req |-> <<>>]
  /\ finalSlug = [r \in Req |-> <<>>]
  /\ resp = [r \in Req |-> NoResp]

\* Requests arrive one after another; request r is the r-th to arrive.
Arrives(r) == pc[r] = "idle" /\ \A q \in Req : q < r => pc[q] # "idle"

\* User ids for which a registration has answered with a token.
Tokens == {q \in Req : kind[q] = "register" /\ resp[q].status = 200}

\* res.status(s).json({error: e}) and return
Reply(r, s, e) ==
  /\ resp' = [resp EXCEPT ![r] = [status |-> s, error |-> e]]
  /\ pc' = [pc EXCEPT ![r] = "done"]
  /\ users' = [users EXCEPT ![r] = <<>>]

\* The user store with user record u added under id (users[id] = u).
Put(store, id, u) ==
  [k \in DOMAIN store \cup {id} |-> IF k = id THEN u ELSE store[k]]

\* ------------------------------------------------- POST /api/register
\* A registration that tests the username only.
RegisterRequestNoEmailCheck(r, b) ==
  /\ Arrives(r)
  /\ kind' = [kind EXCEPT ![r] = "register"]
  /\ body' = [body EXCEPT ![r] = b]
  /\ IF ~Truthy(b.username) \/ ~Truthy(b.email) \/ ~Truthy(b.password)
     THEN Reply(r, 400, "All fields are required")
     ELSE IF ~validateUsername(b.username)
     THEN Reply(r, 400, "Invalid username. Use 3-30 characters, letters, numbers, hyphens, and underscores only.")
     ELSE IF Len(b.password) < 6
     THEN Reply(r, 400, "Password must be at least 6 characters long")
     ELSE IF \E k \in DOMAIN usersFile : usersFile[k].username = b.username
     THEN Reply(r, 400, "Username already taken")
     ELSE /\ users' = [users EXCEPT ![r] = usersFile]
          /\ pc' = [pc EXCEPT ![r] = "hash"]
          /\ resp' = resp
  /\ UNCHANGED <<usersFile, content, auth, slug, finalSlug>>

\* Lines 257-289: the field checks, the read of users.json and the
\* uniqueness checks on the users read.
RegisterRequest(r, b) ==
  /\ Arrives(r)
  /\ kind' = [kind EXCEPT ![r] = "register"]
  /\ body' = [body EXCEPT ![r] = b]
  /\ IF ~Truthy(b.username) \/ ~Truthy(b.email) \/ ~Truthy(b.password)
     THEN Reply(r, 400, "All fields are required")
     ELSE IF ~validateUsername(b.username)
     THEN Reply(r, 400, "Invalid username. Use 3-30 characters, letters, numbers, hyphens, and underscores only.")
     ELSE IF Len(b.password) < 6
     THEN Reply(r, 400, "Password must be at least 6 characters long")
     ELSE IF \E k \in DOMAIN usersFile : usersFile[k].username = b.username
     THEN Reply(r, 400, "Username already taken")
     ELSE IF \E k \in DOMAIN usersFile : usersFile[k].email = b.email
     THEN Reply(r, 400, "Email already registered")
     ELSE /\ users' = [users EXCEPT ![r] = usersFile]
          /\ pc' = [pc EXCEPT ![r] = "hash"]
          /\ resp' = resp
  /\ UNCHANGED <<usersFile, content, auth, slug, finalSlug>>

\* Lines 295-304: the user record; crypto.randomUUID() is the request number.
NewUser(r, a, n, numbers) ==
  [id |-> r, username |-> body[r].username, email |-> body[r].email,
   password |-> bcryptHash(body[r].password),
   subdomain |-> generateSubdomain(body[r].username, a, n, numbers),
   sites |-> <<>>]

\* Lines 314-326: the token and the success response.
Registered(r, user) ==
  /\ resp' = [resp EXCEPT ![r] =
       [status |-> 200, success |-> TRUE,
        token |-> [userId |-> user.id, username |-> user.username],
        user |-> [id |-> user.id, username |-> user.username,
                  email |-> user.email, subdomain |-> user.subdomain]]]
  /\ pc' = [pc EXCEPT ![r] = "done"]
  /\ users' = [users EXCEPT ![r] = <<>>]

\* Lines 291-326: after the hash, the user is added to the users read
\* earlier, the whole object is written over users.json, the user directory
\* is made and the token is sent.
RegisterSave(r) ==
  /\ pc[r] = "hash" /\ kind[r] = "register"
  /\ \E d \in 1..MaxDraw :
       /\ usersFile' = Put(users[r], r, NewUser(r, d, d, d))
       /\ Registered(r, NewUser(r, d, d, d))
  /\ UNCHANGED <<content, kind, body, auth, slug, finalSlug>>

\* Lines 307, 328-331: the write of users.json throws.
RegisterSaveFails(r) ==
  /\ pc[r] = "hash" /\ kind[r] = "register"
  /\ Reply(r, 500, "Registration failed")
  /\ UNCHANGED <<usersFile, content, kind, body, auth, slug, finalSlug>>

\* Lines 291-311, 328-331: users.json is written, then fs.mkdir of the user
\* directory throws.
RegisterMkdirFails(r) ==
  /\ pc[r] = "hash" /\ kind[r] = "register"
  /\ \E d \in 1..MaxDraw : usersFile' = Put(users[r], r, NewUser(r, d, d, d))
  /\ Reply(r, 500, "Registration failed")
  /\ UNCHANGED <<content, kind, body, auth, slug, finalSlug>>

\* --------------------------------------------------- POST /api/upload
\* Lines 539-542.  siteName.toLowerCase() throws a TypeError when siteName
\* is undefined; Absent stands for that outcome.
CandidateSlug(b) ==
  IF Truthy(b.siteSlug) THEN b.siteSlug
  ELSE IF b.siteName = Absent THEN Absent
  ELSE SlugFromName(b.siteName)

\* Lines 516-555: the html check, the read of users.json, the slug and the
\* unique-slug loop on the sites read; then the handler awaits fs.mkdir.
UploadRequest(r, uid, b) ==
  /\ Arrives(r)
  /\ uid \in Tokens
  /\ kind' = [kind EXCEPT ![r] = "upload"]
  /\ body' = [body EXCEPT ![r] = b]
  /\ auth' = [auth EXCEPT ![r] = uid]
  /\ IF ~Truthy(b.html)
     THEN Reply(r, 400, "HTML content is required") /\ UNCHANGED <<slug, finalSlug>>
     ELSE IF uid \notin DOMAIN usersFile
     THEN Reply(r, 404, "User not found") /\ UNCHANGED <<slug, finalSlug>>
     ELSE IF CandidateSlug(b) = Absent
     THEN Reply(r, 500, "Failed to upload site") /\ UNCHANGED <<slug, finalSlug>>
     ELSE IF ~validateSubdomain(CandidateSlug(b))
     THEN Reply(r, 400, "Invalid site name. Use 3-63 characters, letters, numbers, and hyphens only.") /\ UNCHANGED <<slug, finalSlug>>
     ELSE /\ users' = [users EXCEPT ![r] = usersFile]
          /\ slug' = [slug EXCEPT ![r] = CandidateSlug(b)]
          /\ finalSlug' = [finalSlug EXCEPT ![r] =
                             UniqueSlug(SitesOf(usersFile, uid), CandidateSlug(b))]
          /\ pc' = [pc EXCEPT ![r] = "content"]
          /\ resp' = resp
  /\ UNCHANGED <<usersFile, content>>

\* Lines 557-577: the site directory is made and index.html is written.
UploadWriteContent(r) ==
  /\ pc[r] = "content" /\ kind[r] = "upload"
  /\ content' = Put(content, <<users[r][auth[r]].subdomain, finalSlug[r]>>,
                    ComposeHtml(body[r]))
  /\ pc' = [pc EXCEPT ![r] = "save"]
  /\ UNCHANGED <<usersFile, kind, body, auth, users, slug, finalSlug, resp>>


\* Lines 579-594: the site record; crypto.randomUUID() is the request number.
NewSite(r) ==
  [id |-> r,
   name |-> IF Truthy(body[r].siteName) THEN body[r].siteName
            ELSE <<"U", "n", "t", "i", "t", "l", "e", "d", " ", "S", "i", "t", "e">>,
   slug |-> finalSlug[r],
   domain |-> IF Truthy(body[r].preferredDomain) THEN body[r].preferredDomain
              ELSE PRIMARY_DOMAIN,
   urls |-> generateSiteUrls(users[r][auth[r]].subdomain, finalSlug[r]),
   visits |-> 0,
   published |-> TRUE]

\* Line 596: user.sites.push(site) on the users read at the start.
Pushed(r) ==
  [users[r] EXCEPT ![auth[r]].sites = Append(@, NewSite(r))]

\* A failed content write that is only logged: the site is still recorded.
UploadWriteContentFailsRecorded(r) ==
  /\ pc[r] = "content" /\ kind[r] = "upload"
  /\ usersFile' = Pushed(r)
  /\ Reply(r, 500, "Failed to upload site")
  /\ UNCHANGED <<content, kind, body, auth, slug, finalSlug>>

\* Lines 560, 577, 610-613: fs.mkdir or fs.writeFile of the content throws.
UploadWriteContentFails(r) ==
  /\ pc[r] = "content" /\ kind[r] = "upload"
  /\ Reply(r, 500, "Failed to upload site")
  /\ UNCHANGED <<usersFile, content, kind, body, auth, slug, finalSlug>>

\* An object property that may be missing: urls[selectedDomain].
Lookup(urls, d) == IF d \in DOMAIN urls THEN urls[d] ELSE Absent

\* Lines 599-608: the success response.
Uploaded(r, site) ==
  /\ resp' = [resp EXCEPT ![r] =
       [status |-> 200, success |-> TRUE, slug |-> finalSlug[r],
        url |-> Lookup(site.urls, site.domain), urls |-> site.urls,
        domain |-> site.domain, primaryUrl |-> site.urls[PRIMARY_DOMAIN],
        site |-> site]]
  /\ pc' = [pc EXCEPT ![r] = "done"]
  /\ users' = [users EXCEPT ![r] = <<>>]

\* The users object written before the push.
UploadSaveBeforePush(r) ==
  /\ pc[r] = "save" /\ kind[r] = "upload"
  /\ usersFile' = users[r]
  /\ Uploaded(r, NewSite(r))
  /\ UNCHANGED <<content, kind, body, auth, slug, finalSlug>>

\* Lines 579-608: the site is pushed onto the user read at the start, the
\* whole users object is written over users.json and the site is returned.
UploadSave(r) ==
  /\ pc[r] = "save" /\ kind[r] = "upload"
  /\ usersFile' = Pushed(r)
  /\ Uploaded(r, NewSite(r))
  /\ UNCHANGED <<content, kind, body, auth, slug, finalSlug>>

\* Lines 597, 610-613: the write of users.json throws.
UploadSaveFails(r) ==
  /\ pc[r] = "save" /\ kind[r] = "upload"
  /\ Reply(r, 500, "Failed to upload site")
  /\ UNCHANGED <<usersFile, content, kind, body, auth, slug, finalSlug>>

\* ------------------------------------------------ GET /api/user/sites
\* Lines 617-644.
ListSites(r, uid) ==
  /\ Arrives(r)
  /\ uid \in Tokens
  /\ kind' = [kind EXCEPT ![r] = "sites"]
  /\ auth' = [auth EXCEPT ![r] = uid]
  /\ resp' = [resp EXCEPT ![r] =
       [status |-> 200,
        sites |-> IF uid \notin DOMAIN usersFile THEN <<>>
                  ELSE [i \in DOMAIN usersFile[uid].sites |->
                          LET site == usersFile[uid].sites[i]
                          IN  [id |-> site.id, name |-> site.name,
                               slug |-> site.slug, domain |-> site.domain,
                               urls |-> site.urls, visits |-> site.visits,
                               published |-> site.published,
                               url |-> IF Lookup(site.urls, site.domain) # Absent
                                       THEN site.urls[site.domain]
                                       ELSE site.urls[PRIMARY_DOMAIN],
                               primaryUrl |-> site.urls[PRIMARY_DOMAIN]]]]]
  /\ pc' = [pc EXCEPT ![r] = "done"]
  /\ UNCHANGED <<usersFile, content, body, users, slug, finalSlug>>

\* ---------------------------------------------------------- the server
\* A request arrives and runs up to its first await.
Start(r) ==
  \/ \E b \in RegisterBodies : RegisterRequest(r, b)
  \/ \E uid \in Req, b \in UploadBodies : UploadRequest(r, uid, b)
  \/ \E uid \in Req : ListSites(r, uid)

\* The same, for clients that send one request at a time.
SeqStart(r) ==
  \/ \E b \in SeqRegisterBodies : RegisterRequest(r, b)
  \/ \E uid \in Req, b \in SeqUploadBodies : UploadRequest(r, uid, b)
  \/ \E uid \in Req : ListSites(r, uid)

\* A suspended request is resumed.
Resume(r) ==
  \/ RegisterSave(r)
  \/ RegisterSaveFails(r)
  \/ RegisterMkdirFails(r)
  \/ UploadWriteContent(r)
  \/ UploadWriteContentFails(r)
  \/ UploadSave(r)
  \/ UploadSaveFails(r)

Next == \E r \in 1..MaxReq : Start(r) \/ Resume(r)

Spec == Init /\ [][Next]_vars

\* The server when clients send a request only after the previous one has
\* been answered.
NoneInFlight == \A q \in Req : pc[q] \in {"idle", "done"}

SeqNext == \E r \in 1..MaxReq : (NoneInFlight /\ SeqStart(r)) \/ Resume(r)

SeqSpec == Init /\ [][SeqNext]_vars

\* One client, bob, that registers and sends the uploads of
\* EdgeUploadBodies, one request at a time.
EdgeStart(r) ==
  \/ RegisterRequest(r, RegisterBody(uBob, eBob, pwd))
  \/ \E uid \in Req, b \in EdgeUploadBodies : UploadRequest(r, uid, b)

EdgeNext == \E r \in 1..MaxReq : (NoneInFlight /\ EdgeStart(r)) \/ Resume(r)

EdgeSpec == Init /\ [][EdgeNext]_vars

\* Two clients, bob and bob-quicksite1, that register and publish under a
\* few explicit slugs, one request at a time, in a longer run.
LongStart(r) ==
  \/ \E b \in LongRegisterBodies : RegisterRequest(r, b)
  \/ \E uid \in Req, b \in LongUploadBodies : UploadRequest(r, uid, b)

LongNext == \E r \in 1..MaxLongReq : (NoneInFlight /\ LongStart(r)) \/ Resume(r)

LongSpec == Init /\ [][LongNext]_vars

\* ================================================================ claims
\* Successful uploads.
Published(r) == kind[r] = "upload" /\ resp[r].status = 200

\* The slugs of a list of sites.
Slugs(sites) == {sites[i].slug : i \in DOMAIN sites}

\* C1: no user's stored site collection holds two sites with the same slug.
C1_NoDuplicateSlug ==
  \A u \in DOMAIN usersFile :
    \A i, j \in DOMAIN usersFile[u].sites :
      i # j => usersFile[u].sites[i].slug # usersFile[u].sites[j].slug

\* A stored collection in which a colliding slug was resolved.
C1_Witness ==
  \E u \in DOMAIN usersFile :
    /\ Len(usersFile[u].sites) >= 2
    /\ \E r \in Req : Published(r) /\ auth[r] = u /\ resp[r].slug # slug[r]

\* C2: two successful uploads of one user with the same display name and no
\* explicit slug never return the same slug.
C2_DistinctSlugsReturned ==
  \A r1, r2 \in Req :
    ( /\ r1 # r2
      /\ Published(r1) /\ Published(r2)
      /\ auth[r1] = auth[r2]
      /\ ~Truthy(body[r1].siteSlug) /\ ~Truthy(body[r2].siteSlug)
      /\ body[r1].siteName = body[r2].siteName )
    => resp[r1].slug # resp[r2].slug

\* s, s-1, s-2, ...
Suffixed(s, k) == IF k = 0 THEN s ELSE s \o <<"-">> \o Dec(k)

\* The user owns no site named s or s-<n> other than through uploads that
\* asked for s.
OnlyFrom(uid, s) ==
  \A q \in Req :
    (Published(q) /\ auth[q] = uid /\ slug[q] # s)
      => \A n \in 0..Cardinality(Req) : resp[q].slug # Suffixed(s, n)

\* C3: uploads of one user sent one after another with the same requested
\* slug s get s, s-1, s-2, ... in that order.
C3_SequentialSuffixes ==
  \A r \in Req :
    (Published(r) /\ OnlyFrom(auth[r], slug[r]))
      => resp[r].slug =
           Suffixed(slug[r],
             Cardinality({q \in Req : /\ q < r /\ Published(q)
                                      /\ auth[q] = auth[r] /\ slug[q] = slug[r]}))

\* Two uploads of the same slug by one user, both successful.
C3_Witness ==
  \E r \in Req :
    /\ Published(r) /\ OnlyFrom(auth[r], slug[r])
    /\ Cardinality({q \in Req : /\ q < r /\ Published(q)
                                /\ auth[q] = auth[r] /\ slug[q] = slug[r]}) = 1

\* C4: the slug the loop resolves is not among the owner's slugs, and it is
\* the candidate whenever the candidate is not among them.  (While the
\* request waits at "content" or "save", users[r] is still the object read
\* at the start, before the push.)
C4_ResolvedSlug ==
  \A r \in Req :
    (kind[r] = "upload" /\ pc[r] \in {"content", "save"})
      => LET S == Slugs(users[r][auth[r]].sites)
         IN  /\ finalSlug[r] \notin S
             /\ slug[r] \notin S => finalSlug[r] = slug[r]

\* A resolution of a candidate the owner already has.
C4_Witness ==
  \E r \in Req :
    /\ kind[r] = "upload" /\ pc[r] \in {"content", "save"}
    /\ slug[r] \in Slugs(users[r][auth[r]].sites)

\* C5: the site of an upload that has answered success stays in its owner's
\* stored collection.
C5_PublishedStays ==
  \A r \in Req :
    Published(r)
      => /\ auth[r] \in DOMAIN usersFile
         /\ \E i \in DOMAIN usersFile[auth[r]].sites :
              usersFile[auth[r]].sites[i] = resp[r].site

\* C6: the write of users.json by an upload of one user leaves the stored
\* collection of every other user as it is.
C6_OtherUsersUntouched ==
  [][\A r \in Req :
       (kind[r] = "upload" /\ pc[r] = "save" /\ resp'[r].status = 200)
         => \A u \in DOMAIN usersFile :
              u # auth[r]
                => /\ u \in DOMAIN usersFile'
                   /\ usersFile'[u].sites = usersFile[u].sites]_vars

\* C7: a list-sites call made after a successful upload of the same user,
\* one request at a time, returns a list with the slug the upload returned.
C7_ListedAfterUpload ==
  \A r, q \in Req :
    (kind[r] = "sites" /\ q < r /\ Published(q) /\ auth[q] = auth[r])
      => /\ resp[r].sites # <<>>
         /\ \E i \in DOMAIN resp[r].sites :
              resp[r].sites[i].slug = resp[q].slug

\* A list-sites call after a successful upload of the user.
C7_Witness ==
  \E r, q \in Req :
    /\ kind[r] = "sites" /\ q < r
    /\ Published(q) /\ auth[q] = auth[r]
    /\ Len(resp[r].sites) = 1

\* C8: an upload without html is answered 400 "HTML content is required" in
\* its first step, which leaves users.json and the content files as they
\* are, and the request takes no further step.
C8_MissingContent ==
  [][\A r \in Req :
       (pc[r] = "idle" /\ kind'[r] = "upload"
          /\ (body'[r].html = Absent \/ body'[r].html = <<>>))
         => /\ resp'[r] = [status |-> 400, error |-> "HTML content is required"]
            /\ pc'[r] = "done"
            /\ usersFile' = usersFile
            /\ content' = content]_vars

\* An upload with empty html refused while its user has a stored site.
C8_Witness ==
  \E r \in Req :
    /\ kind[r] = "upload" /\ body[r].html = <<>>
    /\ resp[r].status = 400
    /\ auth[r] \in DOMAIN usersFile
    /\ usersFile[auth[r]].sites # <<>>

\* The slug grammar: characters of [a-zA-Z0-9-], 3 to 63 of them, no hyphen
\* at either end.
SlugGrammar(s) ==
  /\ \A i \in DOMAIN s :
       s[i] \in Range(LowerChars) \cup Range(UpperChars) \cup Range(DigitChars) \cup {"-"}
  /\ Len(s) >= 3 /\ Len(s) =< 63
  /\ s[1] # "-" /\ s[Len(s)] # "-"

\* C9: an upload with html, by a stored user, whose candidate slug is not
\* in the slug grammar is answered 400 "Invalid site name..." in its first
\* step, which writes nothing, and the request takes no further step.
C9_InvalidSlug ==
  [][\A r \in Req :
       (pc[r] = "idle" /\ kind'[r] = "upload"
          /\ body'[r].html # Absent /\ body'[r].html # <<>>
          /\ auth'[r] \in DOMAIN usersFile
          /\ CandidateSlug(body'[r]) # Absent
          /\ ~SlugGrammar(CandidateSlug(body'[r])))
         => /\ resp'[r] = [status |-> 400, error |-> "Invalid site name. Use 3-63 characters, letters, numbers, and hyphens only."]
            /\ pc'[r] = "done"
            /\ usersFile' = usersFile
            /\ content' = content]_vars

\* The explicit slug "Ab" refused while its user has a stored site.
C9_Witness ==
  \E r \in Req :
    /\ kind[r] = "upload" /\ body[r].siteSlug = <<"A", "b">>
    /\ resp[r] = [status |-> 400, error |-> "Invalid site name. Use 3-63 characters, letters, numbers, and hyphens only."]
    /\ usersFile[auth[r]].sites # <<>>

\* C10: when the content write of an upload fails, the upload is answered
\* 500, users.json is left as it is and the request takes no further step.
C10_ContentWriteFails ==
  [][\A r \in Req :
       (kind[r] = "upload" /\ pc[r] = "content" /\ pc'[r] # "save" /\ pc'[r] # pc[r])
         => /\ resp'[r] = [status |-> 500, error |-> "Failed to upload site"]
            /\ pc'[r] = "done"
            /\ usersFile' = usersFile]_vars

\* An upload answered 500 whose content file does not exist: its content
\* write failed.
C10_Witness ==
  \E r \in Req :
    /\ kind[r] = "upload" /\ pc[r] = "done" /\ resp[r].status = 500
    /\ finalSlug[r] # <<>>
    /\ auth[r] \in DOMAIN usersFile
    /\ <<usersFile[auth[r]].subdomain, finalSlug[r]>> \notin DOMAIN content

\* C11: when the write of users.json by an upload fails, users.json is as
\* it was and no index.html is left under the owner's subdomain and the
\* resolved slug.
C11_SaveFailsLeavesNothing ==
  [][\A r \in Req :
       (kind[r] = "upload" /\ pc[r] = "save"
          /\ pc'[r] = "done" /\ resp'[r].status = 500)
         => /\ usersFile' = usersFile
            /\ <<users[r][auth[r]].subdomain, finalSlug[r]>> \notin DOMAIN content']_vars

\* C12: the urls of every stored site have one entry for each of the ten
\* supported domains and no other, and the entry of domain d is
\* https://<owner's subdomain>-<slug>.<d>.
C12_UrlsPerDomain ==
  \A u \in DOMAIN usersFile :
    \A i \in DOMAIN usersFile[u].sites :
      LET site == usersFile[u].sites[i]
      IN  /\ DOMAIN site.urls = {SUPPORTED_DOMAINS[j] : j \in 1..10}
          /\ \A d \in DOMAIN site.urls :
               site.urls[d] = <<"h", "t", "t", "p", "s", ":", "/", "/">>
                                \o usersFile[u].subdomain \o <<"-">>
                                \o site.slug \o <<".">> \o d

\* A user with two stored sites, the second under a suffixed slug.
C12_Witness ==
  \E u \in DOMAIN usersFile :
    /\ Len(usersFile[u].sites) = 2
    /\ usersFile[u].sites[2].slug = Suffixed(usersFile[u].sites[1].slug, 1)

\* C13: the domain a successful upload records and returns is the
\* preferredDomain of the request when that is given and is one of the
\* supported domains, and the primary domain otherwise; so it is always a
\* supported domain and the returned url is defined.
C13_EffectiveDomain ==
  \A r \in Req :
    Published(r)
      => /\ resp[r].domain =
              IF /\ body[r].preferredDomain # Absent
                 /\ body[r].preferredDomain \in {SUPPORTED_DOMAINS[j] : j \in 1..10}
              THEN body[r].preferredDomain
              ELSE PRIMARY_DOMAIN
         /\ resp[r].site.domain = resp[r].domain
         /\ resp[r].domain \in {SUPPORTED_DOMAINS[j] : j \in 1..10}
         /\ resp[r].url # Absent

\* C14: the slug of every stored site, a collision-suffixed one included,
\* is in the slug grammar: characters of [a-zA-Z0-9-], 3 to 63 of them, no
\* hyphen at either end.
C14_StoredSlugsInGrammar ==
  \A u \in DOMAIN usersFile :
    \A i \in DOMAIN usersFile[u].sites :
      SlugGrammar(usersFile[u].sites[i].slug)

\* C15: an upload with html and without a slug, whose name is missing or
\* empty, by a stored user, gets the candidate slug "site" in its first
\* step and resolves to "site" when the user has no site of that slug.
C15_FallbackSite ==
  [][\A r \in Req :
       (pc[r] = "idle" /\ kind'[r] = "upload"
          /\ body'[r].html # Absent /\ body'[r].html # <<>>
          /\ body'[r].siteSlug = Absent
          /\ (body'[r].siteName = Absent \/ body'[r].siteName = <<>>)
          /\ auth'[r] \in DOMAIN usersFile)
         => /\ pc'[r] = "content"
            /\ slug'[r] = <<"s", "i", "t", "e">>
            /\ <<"s", "i", "t", "e">> \notin Slugs(usersFile[auth'[r]].sites)
                 => finalSlug'[r] = <<"s", "i", "t", "e">>]_vars

\* C16: no two stored users have the same username and no two have the
\* same email, however registrations interleave.
C16_UniqueUsernamesEmails ==
  \A u, v \in DOMAIN usersFile :
    u # v => /\ usersFile[u].username # usersFile[v].username
             /\ usersFile[u].email # usersFile[v].email

\* Two registrations with the same email that were both answered 200, one
\* of them stored.
C16_Witness ==
  \E r, q \in Req :
    /\ r # q
    /\ kind[r] = "register" /\ kind[q] = "register"
    /\ resp[r].status = 200 /\ resp[q].status = 200
    /\ body[r].email = body[q].email
    /\ r \in DOMAIN usersFile

\* C17: no two stored users have the same subdomain, whatever the random
\* words and number drawn for them.
C17_UniqueSubdomains ==
  \A u, v \in DOMAIN usersFile :
    u # v => usersFile[u].subdomain # usersFile[v].subdomain

\* The part of a user's subdomain after the username: the hyphen and the
\* words and number drawn.
Drawn(user) == SubSeq(user.subdomain, Len(user.username) + 1, Len(user.subdomain))

\* Two stored users for whom the same words and number were drawn.
C17_Witness ==
  \E u, v \in DOMAIN usersFile :
    u # v /\ Drawn(usersFile[u]) = Drawn(usersFile[v])

\* The stored sites, each as <<id of its owner, position in sites>>.
StoredSites ==
  UNION {{<<u, i>> : i \in DOMAIN usersFile[u].sites} : u \in DOMAIN usersFile}

\* C18: for every supported domain, no two different stored sites, of one
\* user or of two, have the same URL on that domain.
C18_UniqueUrls ==
  \A p, q \in StoredSites :
    p # q => \A d \in {SUPPORTED_DOMAINS[j] : j \in 1..10} :
               usersFile[p[1]].sites[p[2]].urls[d]
                 # usersFile[q[1]].sites[q[2]].urls[d]

\* C19: when the candidate slug c is among the slugs S of the owner, the
\* resolved slug is c-k for the least k >= 1 such that c-k is not in S.
\* (S is read from users[r], the object the loop ran on.)
C19_LeastSuffix ==
  \A r \in Req :
    (kind[r] = "upload" /\ pc[r] \in {"content", "save"}
       /\ slug[r] \in Slugs(users[r][auth[r]].sites))
      => LET S == Slugs(users[r][auth[r]].sites)
         IN  \E k \in 1..(Cardinality(S) + 1) :
               /\ finalSlug[r] = Suffixed(slug[r], k)
               /\ Suffixed(slug[r], k) \notin S
               /\ \A j \in 1..(k - 1) : Suffixed(slug[r], j) \in S

\* A resolution where c and c-1 are both taken.
C19_Witness ==
  \E r \in Req :
    /\ kind[r] = "upload" /\ pc[r] = "save"
    /\ LET S == Slugs(users[r][auth[r]].sites)
       IN  /\ slug[r] \in S
           /\ Cardinality(S) = 2
           /\ Suffixed(slug[r], 1) \in S

\* The display name lowercased, with every run of characters outside
\* [a-z0-9] replaced by a hyphen and the hyphens at its ends removed.
Normalised(name) == StripHyphens(ReplaceRuns(toLowerCase(name), FALSE))

\* The first step of an upload with html, without a slug and with a
\* non-empty name, by a stored user.
NamedUploadArrives(r) ==
  /\ pc[r] = "idle" /\ kind'[r] = "upload"
  /\ body'[r].html # Absent /\ body'[r].html # <<>>
  /\ (body'[r].siteSlug = Absent \/ body'[r].siteSlug = <<>>)
  /\ body'[r].siteName # Absent /\ body'[r].siteName # <<>>
  /\ auth'[r] \in DOMAIN usersFile

\* The upload is refused as an invalid site name and writes nothing.
RefusedInvalid(r) ==
  /\ resp'[r] = [status |-> 400, error |-> "Invalid site name. Use 3-63 characters, letters, numbers, and hyphens only."]
  /\ pc'[r] = "done"
  /\ usersFile' = usersFile
  /\ content' = content

\* C20 as stated: an upload without a slug whose name normalises to the
\* empty string or to fewer than 3 characters is refused as an invalid site
\* name and stores no site.
C20_ShortNameRefused ==
  [][\A r \in Req :
       (NamedUploadArrives(r) /\ Len(Normalised(body'[r].siteName)) < 3)
         => RefusedInvalid(r)]_vars

\* C20, amended: an upload without a slug whose name normalises to one or
\* two characters is refused as an invalid site name and stores no site;
\* when the name normalises to the empty string the candidate slug is the
\* fallback "site" and the upload goes on.
C20_ShortNameRefusedEmptyFallsBack ==
  [][\A r \in Req :
       NamedUploadArrives(r)
         => LET n == Normalised(body'[r].siteName)
            IN  /\ Len(n) \in {1, 2} => RefusedInvalid(r)
                /\ n = <<>> => /\ slug'[r] = <<"s", "i", "t", "e">>
                               /\ pc'[r] = "content"]_vars

\* The name "A!" refused and the name "!!" published under the slug "site".
C20_Witness ==
  \E r, q \in Req :
    /\ kind[r] = "upload" /\ body[r].siteName = <<"A", "!">>
    /\ resp[r] = [status |-> 400, error |-> "Invalid site name. Use 3-63 characters, letters, numbers, and hyphens only."]
    /\ Published(q) /\ body[q].siteName = <<"!", "!">>
    /\ resp[q].slug = <<"s", "i", "t", "e">>

\* C21: the unique-slug loop ends for the candidate and the sites it is run
\* on, after at most |S| + 1 tests, S being the slugs of the owner; the
\* counter goes up by one with every failed test, so the slug resolved
\* after n tests is the candidate with suffix n - 1 (the candidate itself
\* for n = 1).
C21_LoopEndsWithinBound ==
  \A r \in Req :
    (kind[r] = "upload" /\ pc[r] \in {"content", "save"})
      => LET sites == users[r][auth[r]].sites
             tests == UniqueLoopTests(sites, slug[r], slug[r], 1)
         IN  /\ tests >= 1
             /\ tests =< Cardinality(Slugs(sites)) + 1
             /\ finalSlug[r] = Suffixed(slug[r], tests - 1)

\* A run of the loop that needs all |S| + 1 tests for two stored slugs.
C21_Witness ==
  \E r \in Req :
    /\ kind[r] = "upload" /\ pc[r] = "content"
    /\ Cardinality(Slugs(users[r][auth[r]].sites)) = 2
    /\ UniqueLoopTests(users[r][auth[r]].sites, slug[r], slug[r], 1) = 3

\* C22: for every stored site, the index.html stored under the owner's
\* subdomain and the slug of the site is the document composed by the
\* upload that made the site record (the id of a site is the number of
\* that upload).
C22_ContentOfSameUpload ==
  \A p \in StoredSites :
    LET user == usersFile[p[1]]
        site == user.sites[p[2]]
    IN  /\ <<user.subdomain, site.slug>> \in DOMAIN content
        /\ content[<<user.subdomain, site.slug>>] = ComposeHtml(body[site.id])

\* C23: the user of a registration that has answered success is in
\* users.json from then on, with the id, username, email and subdomain the
\* response gave.
C23_RegisteredUserStays ==
  \A r \in Req :
    (kind[r] = "register" /\ resp[r].status = 200)
      => /\ resp[r].user.id \in DOMAIN usersFile
         /\ LET stored == usersFile[resp[r].user.id]
            IN  /\ stored.id = resp[r].user.id
                /\ stored.username = resp[r].user.username
                /\ stored.email = resp[r].user.email
                /\ stored.subdomain = resp[r].user.subdomain

====
